---------------------------- MODULE Spec2Model ----------------------------
(***************************************************************************)
(* s3-index: the Index Store (src/src/s3_index/db/operations.py) as a      *)
(* state machine.  The SQLite file is the shared state: one table s3_keys  *)
(* with UNIQUE(bucket, key), the committed rows, and the write lock of the  *)
(* engine.  Every caller (a process running the CLI) walks through the      *)
(* statements of setup_database, get_existing_keys, save_keys_to_db and     *)
(* search_keys; the steps are the statements that touch the database file.  *)
(***************************************************************************)
EXTENDS Integers, Sequences, FiniteSets, TLC

(* ------------------------------ bounds -------------------------------- *)

\* Longest descriptor list handed to one call by a single caller.
MaxLen == 3

\* Longest descriptor list handed to one call when two callers interleave.
MaxLenConc == 2

\* The engine's ceiling on bound parameters of one statement
\* (SQLITE_MAX_VARIABLE_NUMBER: 999, 32766 or 250000 by build), scaled down.
MaxVariableNumber == 8

\* Calls made in one run of the model by a single caller.
MaxCalls == 3

\* Calls made in one run of the model by two interleaved callers together.
MaxCallsConc == 2

\* Most objects held by one bucket of the remote store.
MaxObjects == 3

\* Largest batch_size passed to list_s3_keys.
MaxBatch == 3

\* Objects per page of list_objects_v2 (the provider's MaxKeys, scaled down).
PageSize == 2

(* ----------------------------- the domain ----------------------------- *)

W1 == "w1"
W2 == "w2"
Procs == {W1, W2}
NoProc == "none"

KeyA == <<"a">>
KeyB == <<"b">>

Desc(b, k, t) == [bucket |-> b, key |-> k, last_modified |-> t]

\* Three identities: (b1,a), (b1,b) share the bucket, (b1,a), (b2,a) share the
\* key; (b1,a) is listed with two timestamps.
Descriptors ==
    { Desc("b1", KeyA, "t1"), Desc("b1", KeyA, "t2"),
      Desc("b1", KeyB, "t1"), Desc("b2", KeyA, "t1") }

SeqsUpTo(S, n) == UNION { [1..m -> S] : m \in 0..n }

Inputs == SeqsUpTo(Descriptors, MaxLen)

\* Two identities, one of them with two timestamps, for interleaved callers.
DescriptorsConc ==
    { Desc("b1", KeyA, "t1"), Desc("b1", KeyA, "t2"), Desc("b1", KeyB, "t1") }

InputsConc == SeqsUpTo(DescriptorsConc, MaxLenConc)

\* Lists one longer than the engine's ceiling allows, over two descriptors.
LimitLen == (MaxVariableNumber \div 2) + 1
InputsLimit ==
    SeqsUpTo({ Desc("b1", KeyA, "t1"), Desc("b1", KeyB, "t1") }, LimitLen)

Queries == { <<"a">>, <<"b">>, <<"c">>, <<>> }

\* Keys of more than one character, one of them holding the character '_',
\* and query strings over ordinary characters and the two characters the
\* LIKE operator reads as wildcards.
DescriptorsSearch ==
    { Desc("b1", <<"a", "b">>, "t1"), Desc("b1", <<"b", "a", "a">>, "t1"),
      Desc("b2", <<"a", "_">>, "t1"), Desc("b2", <<"b">>, "t1") }

InputsSearch == SeqsUpTo(DescriptorsSearch, MaxLenConc)

QueryAlphabet == { "a", "b", "%", "_" }

QueriesSearch == SeqsUpTo(QueryAlphabet, MaxLenConc)

(* ------------------------- pure helper functions ---------------------- *)

Id(d) == <<d.bucket, d.key>>

Range(s) == { s[i] : i \in 1..Len(s) }

Ids(s) == { Id(s[i]) : i \in 1..Len(s) }

\* operations.py:54  bucket_key_pairs = [(k["bucket"], k["key"]) for k in keys]
BucketKeyPairs(ks) == [i \in 1..Len(ks) |-> <<ks[i].bucket, ks[i].key>>]

\* operations.py:60  flat_params = [item for pair in pairs for item in pair]
FlatParams(pairs) ==
    [j \in 1..(2 * Len(pairs)) |-> pairs[(j + 1) \div 2][2 - (j % 2)]]

\* Variant: WHERE bucket IN (...) AND key IN (...), the columns matched apart.
SelectExistingSeparateIn(tbl, flat) ==
    { <<tbl[r].bucket, tbl[r].key>> :
        r \in { r \in 1..Len(tbl) :
                  /\ \E i \in 1..(Len(flat) \div 2) : tbl[r].bucket = flat[2 * i - 1]
                  /\ \E i \in 1..(Len(flat) \div 2) : tbl[r].key = flat[2 * i] } }

\* operations.py:63-69  SELECT bucket, key FROM s3_keys
\*                      WHERE (bucket, key) IN ((?, ?), (?, ?), ...)
\* placeholder pair i is bound to parameters 2i-1 and 2i; the fetched rows
\* become a set of (bucket, key) tuples.
SelectExisting(tbl, flat) ==
    { <<tbl[r].bucket, tbl[r].key>> :
        r \in { r \in 1..Len(tbl) :
                  \E i \in 1..(Len(flat) \div 2) :
                      /\ tbl[r].bucket = flat[2 * i - 1]
                      /\ tbl[r].key = flat[2 * i] } }

\* The engine refuses a statement with more bound parameters than its ceiling.
TooManyVariables(ks) == 2 * Len(ks) > MaxVariableNumber

\* operations.py:46-72 on an existing table, within the ceiling.
GetExistingKeys(tbl, ks) ==
    IF ks = <<>> THEN {} ELSE SelectExisting(tbl, FlatParams(BucketKeyPairs(ks)))

\* Variant: the new descriptors are collected in a dict keyed by identity,
\* so of a repeated identity only the last descriptor is kept.
NewKeysLastWins(ks, ex) ==
    LET keep == { i \in 1..Len(ks) :
                    /\ Id(ks[i]) \notin ex
                    /\ \A j \in (i + 1)..Len(ks) : Id(ks[j]) # Id(ks[i]) }
        F[i \in 0..Len(ks)] ==
            IF i = 0 THEN <<>>
            ELSE IF i \in keep THEN Append(F[i - 1], ks[i]) ELSE F[i - 1]
    IN F[Len(ks)]

\* operations.py:95-105  the partition of the input.
NewKeys(ks, ex) == SelectSeq(ks, LAMBDA d : Id(d) \notin ex)

\* Variant: skipped counted per identity instead of per descriptor.
SkippedCountDistinct(ks, ex) == Cardinality(Ids(ks) \cap ex)

\* Variant: skipped += 1 outside the if, for every descriptor of the list.
SkippedCountAll(ks, ex) == Len(ks)

\* operations.py:96-103  skipped += 1 for every descriptor found existing.
SkippedCount(ks, ex) == Cardinality({ i \in 1..Len(ks) : Id(ks[i]) \in ex })

\* Variant: the table created without the constraint.
NoUniqueConstraint(tbl, pend, d) == FALSE

\* Variant: UNIQUE(bucket, key, last_modified).
UniqueWithStamp(tbl, pend, d) == d \in (Range(tbl) \cup Range(pend))

\* UNIQUE(bucket, key) of operations.py:28, as seen by a writer: the committed
\* rows and the rows of its own open transaction.
UniqueViolation(tbl, pend, d) == Id(d) \in (Ids(tbl) \cup Ids(pend))

\* operations.py:169-172  key LIKE '%' || query || '%'
RECURSIVE LikeMatch(_, _)
LikeMatch(pat, s) ==
    IF pat = <<>> THEN s = <<>>
    ELSE IF Head(pat) = "%"
         THEN \E n \in 0..Len(s) : LikeMatch(Tail(pat), SubSeq(s, n + 1, Len(s)))
    ELSE IF s = <<>> THEN FALSE
    ELSE /\ (Head(pat) = "_" \/ Head(pat) = Head(s))
         /\ LikeMatch(Tail(pat), Tail(s))

SearchTerm(q) == <<"%">> \o q \o <<"%">>

SearchRows(tbl, q) == SelectSeq(tbl, LAMBDA r : LikeMatch(SearchTerm(q), r.key))

(* ------------------------------- state -------------------------------- *)

VARIABLES
    schema,         \* the table s3_keys exists
    table,          \* committed rows, in rowid order
    lock,           \* holder of the engine's write (RESERVED) lock
    st,             \* per caller: position and locals of the running call
    totalReported,  \* sum of the inserted counts returned so far
    calls,          \* calls that may still be started
    s3,             \* the remote object store: its buckets, in listing order
    gen,            \* the generator object of one list_s3_keys call
    drv             \* the save command of the CLI: position and locals

vars == <<schema, table, lock, st, totalReported, calls, s3, gen, drv>>

Fresh(o, ks, tbl) ==
    [ pc |-> "idle", op |-> o, keys |-> ks, query |-> <<>>,
      existing |-> {}, newKeys |-> <<>>, skipped |-> 0,
      idx |-> 1, pending |-> <<>>, count |-> 0,
      path |-> "none", err |-> "none", ret |-> <<>>,
      pre |-> tbl, inserted |-> <<>>, faulted |-> {}, repeat |-> FALSE ]

\* No generator has been created.
GenOff ==
    [ pc |-> "off", filter |-> "", buckets |-> <<>>, batchSize |-> 0,
      bi |-> 0, pg |-> 0,
      oi |-> 0, batch |-> <<>>, out |-> <<>>, resume |-> "none",
      emitted |-> <<>>, read |-> <<>>, failed |-> {} ]

\* No command of the CLI is running.  saved is history: the lists whose
\* save_keys_to_db call has returned.  prev, puts and since are history: the
\* filter of the save command that ended well before this command ("-" when
\* there is none), the buckets that received an object between that command
\* and this one, and those that received one after this command.
DrvOff ==
    [ pc |-> "off", cmd |-> "none", total |-> 0, batchCount |-> 0,
      results |-> <<>>, exit |-> 0, errs |-> {}, before |-> <<>>,
      fallbacks |-> 0, saved |-> <<>>,
      prev |-> "-", puts |-> <<>>, since |-> <<>> ]

InitDb ==
    /\ schema = FALSE
    /\ table = <<>>
    /\ lock = NoProc
    /\ st = [p \in Procs |-> Fresh("none", <<>>, <<>>)]
    /\ totalReported = 0

InitStore ==
    /\ InitDb
    /\ s3 = <<>>
    /\ gen = GenOff
    /\ drv = DrvOff

Init == InitStore /\ calls = MaxCallsConc

InitSingle == InitStore /\ calls = MaxCalls

Resting(p) == st[p].pc = "idle"

SaveReturned(p) == st[p].op = "save" /\ st[p].pc = "done"

\* A caller at rest starts its next call.
Start(p) == Resting(p) /\ calls > 0 /\ calls' = calls - 1

\* The call has returned or raised and the caller drops its result.
Return(p) ==
    /\ st[p].pc \in {"done", "raised"}
    /\ st' = [st EXCEPT ![p] = Fresh("none", <<>>, <<>>)]
    /\ UNCHANGED <<s3, gen, drv, schema, table, lock, totalReported, calls>>

Release(p) == IF lock = p THEN NoProc ELSE lock

(* --------------------------- setup_database --------------------------- *)

\* operations.py:4-8  get_db_path()
DbPath == "~/.keymanager-file-db.sqlite"

\* Variant: the table is dropped and created again.
SetupDatabaseRecreate(p) ==
    /\ Start(p)
    /\ schema' = TRUE
    /\ table' = <<>>
    /\ st' = [st EXCEPT ![p] =
                [Fresh("setup", <<>>, table) EXCEPT !.pc = "done", !.ret = DbPath]]
    /\ UNCHANGED <<s3, gen, drv, lock, totalReported>>

\* operations.py:11-34, called on its own (cli/app.py:25): CREATE TABLE IF
\* NOT EXISTS, the commit, the path returned.
SetupDatabase(p) ==
    /\ Start(p)
    /\ schema' = TRUE
    /\ st' = [st EXCEPT ![p] =
                [Fresh("setup", <<>>, table) EXCEPT !.pc = "done", !.ret = DbPath]]
    /\ UNCHANGED <<s3, gen, drv, table, lock, totalReported>>

(* -------------------------- get_existing_keys ------------------------- *)

\* operations.py:37-72, called on its own.
ExistingCall(p, ks) ==
    /\ Start(p)
    /\ st' = [st EXCEPT ![p] =
                IF ks = <<>>
                THEN [Fresh("existing", ks, table) EXCEPT !.pc = "done", !.ret = {}]
                ELSE IF TooManyVariables(ks)
                THEN [Fresh("existing", ks, table) EXCEPT
                        !.pc = "raised", !.err = "too many SQL variables"]
                ELSE IF ~schema
                THEN [Fresh("existing", ks, table) EXCEPT
                        !.pc = "raised", !.err = "no such table"]
                ELSE [Fresh("existing", ks, table) EXCEPT
                        !.pc = "done", !.ret = GetExistingKeys(table, ks)]]
    /\ UNCHANGED <<s3, gen, drv, schema, table, lock, totalReported>>

(* --------------------------- save_keys_to_db -------------------------- *)

\* Variant: no early return for an empty list.
SaveEnterNoGuard(ks, tbl, again) ==
    [Fresh("save", ks, tbl) EXCEPT !.repeat = again, !.pc = "setup"]

\* operations.py:84-85: empty input returns (0, 0) at once.
SaveEnter(ks, tbl, again) ==
    LET f == [Fresh("save", ks, tbl) EXCEPT !.repeat = again]
    IN IF ks = <<>>
       THEN [f EXCEPT !.pc = "done", !.ret = <<0, 0>>]
       ELSE [f EXCEPT !.pc = "setup"]

SaveCall(p, ks) ==
    /\ Start(p)
    /\ st' = [st EXCEPT ![p] = SaveEnter(ks, table, FALSE)]
    /\ UNCHANGED <<s3, gen, drv, schema, table, lock, totalReported>>

\* The caller whose save has just returned calls save again with the same
\* list (a re-run of the sync over an unchanged listing).
SaveAgain(p) ==
    /\ st[p].op = "save" /\ st[p].pc = "done"
    /\ calls > 0 /\ calls' = calls - 1
    /\ st' = [st EXCEPT ![p] = SaveEnter(st[p].keys, table, TRUE)]
    /\ UNCHANGED <<s3, gen, drv, schema, table, lock, totalReported>>

\* operations.py:87-89: setup_database(), then the connection of the call.
SaveSetup(p) ==
    /\ st[p].op = "save" /\ st[p].pc = "setup"
    /\ schema' = TRUE
    /\ st' = [st EXCEPT ![p].pc = "check"]
    /\ UNCHANGED <<s3, gen, drv, table, lock, totalReported, calls>>

\* operations.py:92-107,111: the existence check on its own connection, the
\* partition, BEGIN TRANSACTION (deferred: no lock yet).
SaveCheck(p) ==
    /\ st[p].op = "save" /\ st[p].pc = "check"
    /\ IF TooManyVariables(st[p].keys)
       THEN st' = [st EXCEPT ![p].pc = "raised",
                             ![p].err = "too many SQL variables"]
       ELSE LET ex == GetExistingKeys(table, st[p].keys)
            IN st' = [st EXCEPT ![p].existing = ex,
                                ![p].newKeys = NewKeys(st[p].keys, ex),
                                ![p].skipped = SkippedCount(st[p].keys, ex),
                                ![p].path = "batch",
                                ![p].idx = 1,
                                ![p].pc = "batch"]
    /\ UNCHANGED <<s3, gen, drv, schema, table, lock, totalReported, calls>>

\* Variant: the connection in autocommit mode, without BEGIN TRANSACTION:
\* every row of executemany is committed by itself.
BatchInsertRowAutocommit(p) ==
    /\ st[p].op = "save" /\ st[p].pc = "batch"
    /\ st[p].idx <= Len(st[p].newKeys)
    /\ lock \in {NoProc, p}
    /\ lock' = NoProc
    /\ LET d == st[p].newKeys[st[p].idx]
       IN IF UniqueViolation(table, <<>>, d)
          THEN st' = [st EXCEPT ![p].pc = "rollback"] /\ table' = table
          ELSE /\ st' = [st EXCEPT ![p].idx = @ + 1]
               /\ table' = Append(table, d)
    /\ UNCHANGED <<s3, gen, drv, schema, totalReported, calls>>

\* operations.py:122: one row of executemany.  The first INSERT takes the
\* write lock (it waits while another connection holds it); a row that
\* breaks UNIQUE(bucket, key) raises and ends the batch attempt.
BatchInsertRow(p) ==
    /\ st[p].op = "save" /\ st[p].pc = "batch"
    /\ st[p].idx <= Len(st[p].newKeys)
    /\ lock \in {NoProc, p}
    /\ lock' = p
    /\ LET d == st[p].newKeys[st[p].idx]
       IN IF UniqueViolation(table, st[p].pending, d)
          THEN st' = [st EXCEPT ![p].pc = "rollback"]
          ELSE st' = [st EXCEPT ![p].pending = Append(@, d), ![p].idx = @ + 1]
    /\ UNCHANGED <<s3, gen, drv, schema, table, totalReported, calls>>

\* Variant: the count taken from the whole input list.
BatchCountInput(s) == Len(s.keys)

\* operations.py:125: count = cursor.rowcount if cursor.rowcount > 0
\*                            else len(new_keys)   (only when new_keys)
\* s.pending holds the rows executemany wrote: its rowcount.
BatchCount(s) ==
    IF s.newKeys = <<>> THEN 0
    ELSE IF Len(s.pending) > 0 THEN Len(s.pending) ELSE Len(s.newKeys)

\* operations.py:125-128,147-149: the count, the commit, the return.
BatchCommit(p) ==
    /\ st[p].op = "save" /\ st[p].pc = "batch"
    /\ st[p].idx > Len(st[p].newKeys)
    /\ LET c == BatchCount(st[p])
       IN /\ st' = [st EXCEPT ![p].count = c,
                              ![p].inserted = st[p].pending,
                              ![p].pending = <<>>,
                              ![p].ret = <<c, st[p].skipped>>,
                              ![p].pc = "done"]
          /\ totalReported' = totalReported + c
    /\ table' = table \o st[p].pending
    /\ lock' = Release(p)
    /\ UNCHANGED <<s3, gen, drv, schema, calls>>

\* Variant: after the rollback the per-row loop is skipped.
RollbackGiveUp(p) ==
    /\ st[p].op = "save" /\ st[p].pc = "rollback"
    /\ st' = [st EXCEPT ![p].pending = <<>>,
                        ![p].count = 0,
                        ![p].idx = Len(st[p].newKeys) + 1,
                        ![p].path = "fallback",
                        ![p].pc = "fallback"]
    /\ lock' = Release(p)
    /\ UNCHANGED <<s3, gen, drv, schema, table, totalReported, calls>>

\* Variant: instead of a rollback, the rows of the new identities are
\* deleted from the table.
RollbackByDelete(p) ==
    /\ st[p].op = "save" /\ st[p].pc = "rollback"
    /\ st' = [st EXCEPT ![p].pending = <<>>,
                        ![p].count = 0,
                        ![p].idx = 1,
                        ![p].path = "fallback",
                        ![p].pc = "fallback"]
    /\ table' = SelectSeq(table, LAMBDA r : Id(r) \notin Ids(st[p].newKeys))
    /\ lock' = Release(p)
    /\ UNCHANGED <<s3, gen, drv, schema, totalReported, calls>>

\* operations.py:129-134: the batch attempt raised; roll it back.
Rollback(p) ==
    /\ st[p].op = "save" /\ st[p].pc = "rollback"
    /\ st' = [st EXCEPT ![p].pending = <<>>,
                        ![p].count = 0,
                        ![p].idx = 1,
                        ![p].path = "fallback",
                        ![p].pc = "fallback"]
    /\ lock' = Release(p)
    /\ UNCHANGED <<s3, gen, drv, schema, table, totalReported, calls>>

\* Variant: the first failing row ends the loop.
FallbackStopAtFailure(s, ok, d) ==
    IF ok THEN [s EXCEPT !.pending = Append(@, d), !.count = @ + 1, !.idx = @ + 1]
    ELSE [s EXCEPT !.idx = Len(s.newKeys) + 1]

\* Variant: count += 1 placed after the try statement.
FallbackCountOutsideTry(s, ok, d) ==
    IF ok THEN [s EXCEPT !.pending = Append(@, d), !.count = @ + 1, !.idx = @ + 1]
    ELSE [s EXCEPT !.count = @ + 1, !.idx = @ + 1]

\* operations.py:135-143: one row of the fallback loop; a failing row is
\* printed and the loop goes on.
FallbackStep(s, ok, d) ==
    IF ok THEN [s EXCEPT !.pending = Append(@, d), !.count = @ + 1, !.idx = @ + 1]
    ELSE [s EXCEPT !.idx = @ + 1]

FallbackRow(p) ==
    /\ st[p].op = "save" /\ st[p].pc = "fallback"
    /\ st[p].idx <= Len(st[p].newKeys)
    /\ lock \in {NoProc, p}
    /\ lock' = p
    /\ LET d == st[p].newKeys[st[p].idx]
       IN st' = [st EXCEPT ![p] =
                   FallbackStep(st[p], ~UniqueViolation(table, st[p].pending, d), d)]
    /\ UNCHANGED <<s3, gen, drv, schema, table, totalReported, calls>>

\* operations.py:145-149: the commit of the fallback, the return.
FallbackCommit(p) ==
    /\ st[p].op = "save" /\ st[p].pc = "fallback"
    /\ st[p].idx > Len(st[p].newKeys)
    /\ st' = [st EXCEPT ![p].inserted = st[p].pending,
                        ![p].pending = <<>>,
                        ![p].ret = <<st[p].count, st[p].skipped>>,
                        ![p].pc = "done"]
    /\ totalReported' = totalReported + st[p].count
    /\ table' = table \o st[p].pending
    /\ lock' = Release(p)
    /\ UNCHANGED <<s3, gen, drv, schema, calls>>

(* ------------------- engine errors in the insertion phase ------------- *)

\* Any statement of the insertion phase may raise for a reason of the engine's
\* own (disk full, I/O error, a lock that is not released in time, the patched
\* executemany of tests/unit/test_db_operations.py:151-152).

\* operations.py:122 raises at some row; caught at operations.py:129.
BatchInsertFault(p) ==
    /\ st[p].op = "save" /\ st[p].pc = "batch"
    /\ st[p].idx <= Len(st[p].newKeys)
    /\ st' = [st EXCEPT ![p].pc = "rollback"]
    /\ UNCHANGED <<s3, gen, drv, schema, table, lock, totalReported, calls>>

\* operations.py:128 raises; caught at operations.py:129.
BatchCommitFault(p) ==
    /\ st[p].op = "save" /\ st[p].pc = "batch"
    /\ st[p].idx > Len(st[p].newKeys)
    /\ st' = [st EXCEPT ![p].count = BatchCount(st[p]),
                        ![p].pc = "rollback"]
    /\ UNCHANGED <<s3, gen, drv, schema, table, lock, totalReported, calls>>

\* operations.py:137-140 raises; caught at operations.py:142.
FallbackRowFault(p) ==
    /\ st[p].op = "save" /\ st[p].pc = "fallback"
    /\ st[p].idx <= Len(st[p].newKeys)
    /\ st' = [st EXCEPT ![p] =
                [FallbackStep(st[p], FALSE, st[p].newKeys[st[p].idx]) EXCEPT
                    !.faulted = @ \cup {st[p].idx}]]
    /\ UNCHANGED <<s3, gen, drv, schema, table, lock, totalReported, calls>>

\* operations.py:145 raises inside the except block: nothing catches it; the
\* finally clause closes the connection, which drops the open transaction.
FallbackCommitFault(p) ==
    /\ st[p].op = "save" /\ st[p].pc = "fallback"
    /\ st[p].idx > Len(st[p].newKeys)
    /\ st' = [st EXCEPT ![p].pending = <<>>,
                        ![p].err = "commit failed",
                        ![p].pc = "raised"]
    /\ lock' = Release(p)
    /\ UNCHANGED <<s3, gen, drv, schema, table, totalReported, calls>>

(* ------------------------ setup_database raising ---------------------- *)

\* sqlite3.connect or CREATE TABLE IF NOT EXISTS raises (the file is not a
\* database, the directory cannot be written): setup_database has no try.
BadFile == "file is not a database"

\* operations.py:87 raises: the call is outside the try of save_keys_to_db.
SaveSetupFault(p) ==
    /\ st[p].op = "save" /\ st[p].pc = "setup"
    /\ st' = [st EXCEPT ![p].pc = "raised", ![p].err = BadFile]
    /\ UNCHANGED <<s3, gen, drv, schema, table, lock, totalReported, calls>>

\* operations.py:164 raises: search_keys has no try.
SearchSetupFault(p) ==
    /\ st[p].op = "search" /\ st[p].pc = "setup"
    /\ st' = [st EXCEPT ![p].pc = "raised", ![p].err = BadFile]
    /\ UNCHANGED <<s3, gen, drv, schema, table, lock, totalReported, calls>>

(* ----------------------------- search_keys ---------------------------- *)

\* operations.py:161-164
SearchCall(p, q) ==
    /\ Start(p)
    /\ st' = [st EXCEPT ![p] =
                [Fresh("search", <<>>, table) EXCEPT !.query = q, !.pc = "setup"]]
    /\ UNCHANGED <<s3, gen, drv, schema, table, lock, totalReported>>

\* Variant: search_keys without its call of setup_database.
SearchSetupSkipped(p) ==
    /\ st[p].op = "search" /\ st[p].pc = "setup"
    /\ st' = [st EXCEPT ![p].pc = "select"]
    /\ UNCHANGED <<s3, gen, drv, schema, table, lock, totalReported, calls>>

\* operations.py:164  setup_database()
SearchSetup(p) ==
    /\ st[p].op = "search" /\ st[p].pc = "setup"
    /\ schema' = TRUE
    /\ st' = [st EXCEPT ![p].pc = "select"]
    /\ UNCHANGED <<s3, gen, drv, table, lock, totalReported, calls>>

\* operations.py:166-177: the SELECT raises when the table is missing.
SearchSelect(p) ==
    /\ st[p].op = "search" /\ st[p].pc = "select"
    /\ st' = IF schema
             THEN [st EXCEPT ![p].ret = SearchRows(table, st[p].query),
                             ![p].pc = "done"]
             ELSE [st EXCEPT ![p].err = "no such table", ![p].pc = "raised"]
    /\ UNCHANGED <<s3, gen, drv, schema, table, lock, totalReported, calls>>

(* ---------------------------- list_s3_keys ---------------------------- *)

\* The remote store: buckets in the order list_buckets returns them, each
\* with its objects in listing order and the number of pages the paginator
\* delivers before it raises (NoFail: it never raises).
NoFail == -1
NoFilter == ""

Chars == <<"a", "b", "c", "d", "e">>
ObjectKey(i) == <<Chars[i]>>

Obj(k, m) == [Key |-> k, LastModified |-> m]

\* s3/operations.py:46  obj["LastModified"].isoformat()
IsoFormat(m) == IF m = 1 THEN "t1" ELSE "t2"

Objects(n) == [i \in 1..n |-> Obj(ObjectKey(i), 1)]

Bucket(nm, objs, f) == [Name |-> nm, objs |-> objs, failAt |-> f]

Min(a, b) == IF a < b THEN a ELSE b

CeilDiv(a, b) == (a + b - 1) \div b

\* An empty bucket answers with one page that has no "Contents".
NumPages(objs) == IF objs = <<>> THEN 1 ELSE CeilDiv(Len(objs), PageSize)

Page(objs, k) == SubSeq(objs, (k - 1) * PageSize + 1, Min(k * PageSize, Len(objs)))

BucketChoices(nm) ==
    UNION { { Bucket(nm, Objects(n), f) :
                f \in {NoFail} \cup (0..(NumPages(Objects(n)) - 1)) } :
            n \in 0..MaxObjects }

RemoteStores ==
    {<<>>}
      \cup { <<x>> : x \in BucketChoices("b1") \cup BucketChoices("b2") }
      \cup { <<x, y>> : x \in BucketChoices("b1"), y \in BucketChoices("b2") }

Filters == { NoFilter, "b1", "b2" }

BatchSizes == 1..MaxBatch

Lookup(nm) == { i \in 1..Len(s3) : s3[i].Name = nm }

Known(nm) == Lookup(nm) # {}

BucketOf(nm) == s3[CHOOSE i \in Lookup(nm) : TRUE]

\* s3/operations.py:43-47
Descriptor(nm, obj) == Desc(nm, obj.Key, IsoFormat(obj.LastModified))

\* s3/operations.py:9-11: the call creates the generator object; its body
\* starts at the first next().
GenCreate(flt, B) == [GenOff EXCEPT !.pc = "created", !.filter = flt, !.batchSize = B]

\* The consumer receives the yielded batch.
GenTaken(g) == [g EXCEPT !.emitted = Append(@, g.out), !.out = <<>>, !.pc = "suspended"]

\* next(): the body starts, or goes on after the yield it stopped at
\* (s3/operations.py:53 after the yield of line 52; the next bucket after
\* the yields of lines 57 and 63).
GenResumed(g) ==
    IF g.pc = "created" THEN [g EXCEPT !.pc = "start"]
    ELSE IF g.resume = "obj" THEN [g EXCEPT !.batch = <<>>, !.pc = "obj"]
    ELSE [g EXCEPT !.pc = "bucket"]

\* s3/operations.py:28-30
GenStart ==
    /\ gen.pc = "start"
    /\ gen' = [gen EXCEPT
                 !.buckets = IF gen.filter # NoFilter
                             THEN <<gen.filter>>
                             ELSE [i \in 1..Len(s3) |-> s3[i].Name],
                 !.pc = "bucket"]
    /\ UNCHANGED <<schema, table, lock, st, totalReported, calls, s3, drv>>

\* s3/operations.py:28-30 raises (no credentials, no connection): nothing
\* in the generator catches it.
GenStartFault ==
    /\ gen.pc = "start"
    /\ gen' = [gen EXCEPT !.pc = "raised"]
    /\ UNCHANGED <<schema, table, lock, st, totalReported, calls, s3, drv>>

\* s3/operations.py:32-38: the next bucket, with a new empty buffer; after
\* the last bucket the generator is exhausted.
GenNextBucket ==
    /\ gen.pc = "bucket"
    /\ gen' = IF gen.bi = Len(gen.buckets)
              THEN [gen EXCEPT !.pc = "end"]
              ELSE [gen EXCEPT !.bi = @ + 1, !.batch = <<>>, !.pg = 0,
                               !.oi = 0, !.pc = "page"]
    /\ UNCHANGED <<schema, table, lock, st, totalReported, calls, s3, drv>>

\* Variant: the remainder is yielded even when it is empty.
YieldRestAlways(g) == [g EXCEPT !.out = g.batch, !.pc = "yielded", !.resume = "bucket"]

\* s3/operations.py:56-57 and 62-63: if batch: yield batch
YieldRest(g) ==
    IF g.batch # <<>>
    THEN [g EXCEPT !.out = g.batch, !.pc = "yielded", !.resume = "bucket"]
    ELSE [g EXCEPT !.pc = "bucket"]

\* s3/operations.py:55-57: the pages of the bucket are exhausted.
OnExhausted(g) == YieldRest(g)

\* Variant: the except clause drops what was buffered.
OnErrorDrop(g) == [g EXCEPT !.failed = @ \cup {g.bi}, !.pc = "bucket"]

\* s3/operations.py:59-63: the paginator raised.
OnError(g) == YieldRest([g EXCEPT !.failed = @ \cup {g.bi}])

\* s3/operations.py:39: the paginator is asked for the next page.
GenPage ==
    /\ gen.pc = "page"
    /\ LET nm == gen.buckets[gen.bi]
       IN gen' = IF ~Known(nm) \/ BucketOf(nm).failAt = gen.pg
                 THEN OnError(gen)
                 ELSE IF gen.pg = NumPages(BucketOf(nm).objs)
                 THEN OnExhausted(gen)
                 ELSE [gen EXCEPT !.pg = @ + 1, !.oi = 0, !.pc = "obj"]
    /\ UNCHANGED <<schema, table, lock, st, totalReported, calls, s3, drv>>

\* Variant: the buffer is yielded only once it exceeds batch_size.
AfterAppendLate(g) ==
    IF Len(g.batch) > g.batchSize
    THEN [g EXCEPT !.out = g.batch, !.pc = "yielded", !.resume = "obj"]
    ELSE g

\* s3/operations.py:51-52  if len(batch) >= batch_size: yield batch
AfterAppend(g) ==
    IF Len(g.batch) >= g.batchSize
    THEN [g EXCEPT !.out = g.batch, !.pc = "yielded", !.resume = "obj"]
    ELSE g

\* s3/operations.py:40-53: one object of the page (a page without
\* "Contents" has none).
GenObj ==
    /\ gen.pc = "obj"
    /\ LET nm == gen.buckets[gen.bi]
           page == Page(BucketOf(nm).objs, gen.pg)
       IN gen' = IF gen.oi = Len(page)
                 THEN [gen EXCEPT !.pc = "page"]
                 ELSE LET d == Descriptor(nm, page[gen.oi + 1])
                      IN AfterAppend([gen EXCEPT !.oi = @ + 1,
                                                 !.batch = Append(@, d),
                                                 !.read = Append(@, d)])
    /\ UNCHANGED <<schema, table, lock, st, totalReported, calls, s3, drv>>

\* tests/unit/test_s3_operations.py:47  list(list_s3_keys(...)): the call
\* and the first next().
ListCall(flt, B) ==
    /\ gen.pc = "off"
    /\ gen' = GenResumed(GenCreate(flt, B))
    /\ UNCHANGED <<schema, table, lock, st, totalReported, calls, s3, drv>>

\* list() stores the batch it received and asks for the next one.
ListTake ==
    /\ gen.pc = "yielded"
    /\ drv.pc = "off"
    /\ gen' = GenResumed(GenTaken(gen))
    /\ UNCHANGED <<schema, table, lock, st, totalReported, calls, s3, drv>>

(* ------------------------- the commands of the CLI -------------------- *)

\* The next command starts when none is running and the caller is at rest.
CliIdle ==
    /\ drv.pc \in {"off", "done", "raised"}
    /\ st[W1].pc \in {"idle", "raised"}

\* The history a new command inherits.
DrvNext(c) ==
    IF drv.cmd = "save" /\ drv.pc = "done"
    THEN [DrvOff EXCEPT !.cmd = c, !.before = table,
                        !.prev = gen.filter, !.puts = drv.since]
    ELSE IF drv.cmd = "save"
    THEN [DrvOff EXCEPT !.cmd = c, !.before = table]
    ELSE [DrvOff EXCEPT !.cmd = c, !.before = table,
                        !.prev = drv.prev, !.puts = drv.puts \o drv.since]

\* cli/app.py:22-34: setup_database(), the counters, the call of
\* list_s3_keys and the first next() of the for loop.
DriverCall(flt, B) ==
    /\ CliIdle
    /\ calls > 0 /\ calls' = calls - 1
    /\ schema' = TRUE
    /\ drv' = [DrvNext("save") EXCEPT !.pc = "pull"]
    /\ gen' = GenResumed(GenCreate(flt, B))
    /\ UNCHANGED <<table, lock, st, totalReported, s3>>

\* Variant: the next batch is requested as soon as one is received, while
\* save_keys_to_db is still running.
DriverTakePrefetch ==
    /\ drv.pc = "pull" /\ gen.pc = "yielded"
    /\ gen' = GenResumed(GenTaken(gen))
    /\ drv' = [drv EXCEPT !.batchCount = @ + 1, !.pc = "saving"]
    /\ st' = [st EXCEPT ![W1] = SaveEnter(gen.out, table, FALSE)]
    /\ UNCHANGED <<schema, table, lock, totalReported, calls, s3>>

\* cli/app.py:34-39: the loop body receives a batch and calls
\* save_keys_to_db with it.
DriverTake ==
    /\ drv.pc = "pull" /\ gen.pc = "yielded"
    /\ gen' = GenTaken(gen)
    /\ drv' = [drv EXCEPT !.batchCount = @ + 1, !.pc = "saving"]
    /\ st' = [st EXCEPT ![W1] = SaveEnter(gen.out, table, FALSE)]
    /\ UNCHANGED <<schema, table, lock, totalReported, calls, s3>>

\* Variant: the running total keeps the count of the last batch only.
AccumulateLast(d, r) ==
    [d EXCEPT !.total = r[1], !.results = Append(@, r), !.pc = "pull"]

\* cli/app.py:39-40  total_count += saved_count
Accumulate(d, r) ==
    [d EXCEPT !.total = @ + r[1], !.results = Append(@, r), !.pc = "pull"]

\* cli/app.py:39-51, 34: save_keys_to_db returned; the total, the report,
\* and the next() of the for loop.
DriverAccumulate ==
    /\ drv.pc = "saving" /\ SaveReturned(W1)
    /\ drv' = [Accumulate(drv, st[W1].ret) EXCEPT
                  !.fallbacks = IF st[W1].path = "fallback" THEN @ + 1 ELSE @,
                  !.saved = Append(@, st[W1].keys)]
    /\ st' = [st EXCEPT ![W1] = Fresh("none", <<>>, <<>>)]
    /\ gen' = GenResumed(gen)
    /\ UNCHANGED <<schema, table, lock, totalReported, calls, s3>>

\* cli/app.py:53-55: the generator is exhausted; the success line and the
\* normal end of the command (exit code 0).
DriverFinish ==
    /\ drv.pc = "pull" /\ gen.pc = "end"
    /\ drv' = [drv EXCEPT !.pc = "done", !.exit = 0]
    /\ UNCHANGED <<schema, table, lock, st, totalReported, calls, s3, gen>>

\* The remote store gains one object between two commands.
PutObject(nm) ==
    /\ CliIdle
    /\ Known(nm)
    /\ Len(BucketOf(nm).objs) < MaxObjects
    /\ s3' = [i \in 1..Len(s3) |->
                 IF s3[i].Name = nm
                 THEN [s3[i] EXCEPT !.objs = Objects(Len(@) + 1)]
                 ELSE s3[i]]
    /\ drv' = [drv EXCEPT !.since = Append(@, nm)]
    /\ UNCHANGED <<schema, table, lock, st, totalReported, calls, gen>>

\* cli/app.py:25 raises: the save command has no try; the exception ends
\* the command with exit code 1 before list_s3_keys is called.
DriverSetupFault ==
    /\ CliIdle
    /\ calls > 0 /\ calls' = calls - 1
    /\ drv' = [DrvNext("save") EXCEPT !.pc = "raised", !.exit = 1, !.errs = {BadFile}]
    /\ UNCHANGED <<schema, table, lock, st, totalReported, s3, gen>>

\* Variant: the command catches what the source raises and ends the loop.
DriverSourceSwallowed ==
    /\ drv.pc = "pull" /\ gen.pc = "raised"
    /\ drv' = [drv EXCEPT !.pc = "done", !.exit = 0, !.errs = @ \cup {"source"}]
    /\ UNCHANGED <<schema, table, lock, st, totalReported, calls, s3, gen>>

\* cli/app.py:34: next() raises what the generator raised; nothing in the
\* command catches it, the process ends with exit code 1.
DriverSourceRaised ==
    /\ drv.pc = "pull" /\ gen.pc = "raised"
    /\ drv' = [drv EXCEPT !.pc = "raised", !.exit = 1, !.errs = @ \cup {"source"}]
    /\ UNCHANGED <<schema, table, lock, st, totalReported, calls, s3, gen>>

\* cli/app.py:39: save_keys_to_db raised; the command ends with exit code 1
\* and the suspended generator is discarded.
DriverSaveRaised ==
    /\ drv.pc = "saving" /\ st[W1].op = "save" /\ st[W1].pc = "raised"
    /\ drv' = [drv EXCEPT !.pc = "raised", !.exit = 1, !.errs = @ \cup {st[W1].err}]
    /\ gen' = [gen EXCEPT !.pc = "closed"]
    /\ UNCHANGED <<schema, table, lock, st, totalReported, calls, s3>>

\* Variant: the rows of the open transaction stay in the store when the
\* process ends.
InterruptCommits ==
    /\ drv.cmd = "save" /\ drv.pc \in {"pull", "saving"}
    /\ drv' = [drv EXCEPT !.pc = "raised", !.exit = 1,
                          !.errs = @ \cup {"KeyboardInterrupt"}]
    /\ gen' = [gen EXCEPT !.pc = "closed"]
    /\ st' = [st EXCEPT ![W1] =
                IF @.pc = "idle" THEN @
                ELSE [@ EXCEPT !.pc = "raised", !.err = "KeyboardInterrupt",
                               !.pending = <<>>]]
    /\ table' = table \o st[W1].pending
    /\ lock' = Release(W1)
    /\ UNCHANGED <<schema, totalReported, calls, s3>>

\* cli/app.py:32-55: the user interrupts the running command (Ctrl-C), at
\* any step of the loop, of the generator or of save_keys_to_db.
\* KeyboardInterrupt is no Exception (s3/operations.py:59) and no
\* sqlite3.Error (operations.py:129): nothing catches it, conn.close() of
\* operations.py:146-147 discards the open transaction and the command
\* ends with exit code 1.
Interrupt ==
    /\ drv.cmd = "save" /\ drv.pc \in {"pull", "saving"}
    /\ drv' = [drv EXCEPT !.pc = "raised", !.exit = 1,
                          !.errs = @ \cup {"KeyboardInterrupt"}]
    /\ gen' = [gen EXCEPT !.pc = "closed"]
    /\ st' = [st EXCEPT ![W1] =
                IF @.pc = "idle" THEN @
                ELSE [@ EXCEPT !.pc = "raised", !.err = "KeyboardInterrupt",
                               !.pending = <<>>]]
    /\ lock' = Release(W1)
    /\ UNCHANGED <<schema, table, totalReported, calls, s3>>

\* cli/app.py:58-64: the search command calls search_keys.
CliSearch(q) ==
    /\ CliIdle
    /\ calls > 0 /\ calls' = calls - 1
    /\ drv' = [DrvNext("search") EXCEPT !.pc = "searching"]
    /\ st' = [st EXCEPT ![W1] =
                [Fresh("search", <<>>, table) EXCEPT !.query = q, !.pc = "setup"]]
    /\ UNCHANGED <<schema, table, lock, totalReported, s3, gen>>

\* cli/app.py:66-80: "No results found" or the table of rows; the command
\* ends normally either way.
CliSearchFinish ==
    /\ drv.pc = "searching" /\ st[W1].op = "search" /\ st[W1].pc = "done"
    /\ drv' = [drv EXCEPT !.pc = "done", !.exit = 0, !.results = st[W1].ret]
    /\ st' = [st EXCEPT ![W1] = Fresh("none", <<>>, <<>>)]
    /\ UNCHANGED <<schema, table, lock, totalReported, calls, s3, gen>>

\* Variant: the command catches the exception and reports no results.
CliSearchSwallow ==
    /\ drv.pc = "searching" /\ st[W1].op = "search" /\ st[W1].pc = "raised"
    /\ drv' = [drv EXCEPT !.pc = "done", !.exit = 0, !.errs = @ \cup {st[W1].err}]
    /\ UNCHANGED <<schema, table, lock, st, totalReported, calls, s3, gen>>

\* cli/app.py:64: search_keys raised; nothing in the command catches it,
\* the process ends with exit code 1.
CliSearchRaised ==
    /\ drv.pc = "searching" /\ st[W1].op = "search" /\ st[W1].pc = "raised"
    /\ drv' = [drv EXCEPT !.pc = "raised", !.exit = 1, !.errs = @ \cup {st[W1].err}]
    /\ UNCHANGED <<schema, table, lock, st, totalReported, calls, s3, gen>>

(* --------------------------- specifications --------------------------- *)

\* Two callers, interleaved at every statement.
Next ==
    \E p \in Procs :
        \/ SetupDatabase(p)
        \/ \E ks \in InputsConc : SaveCall(p, ks)
        \/ SaveAgain(p)
        \/ Return(p)
        \/ SaveSetup(p)
        \/ SaveCheck(p)
        \/ BatchInsertRow(p)
        \/ BatchCommit(p)
        \/ Rollback(p)
        \/ FallbackRow(p)
        \/ FallbackCommit(p)
        \/ \E q \in Queries : SearchCall(p, q)
        \/ SearchSetup(p)
        \/ SearchSelect(p)

Spec == Init /\ [][Next]_vars

\* Two interleaved callers making every call of the Index Store, the
\* existence check on its own included.
NextAll ==
    \/ Next
    \/ \E p \in Procs : \E ks \in InputsConc : ExistingCall(p, ks)

SpecAll == Init /\ [][NextAll]_vars

\* One caller (the documented mode of use: no concurrent writer).
NextSingle ==
    \/ SetupDatabase(W1)
    \/ \E ks \in Inputs : ExistingCall(W1, ks)
    \/ \E ks \in Inputs : SaveCall(W1, ks)
    \/ SaveAgain(W1)
    \/ Return(W1)
    \/ SaveSetup(W1)
    \/ SaveCheck(W1)
    \/ BatchInsertRow(W1)
    \/ BatchCommit(W1)
    \/ Rollback(W1)
    \/ FallbackRow(W1)
    \/ FallbackCommit(W1)
    \/ \E q \in Queries : SearchCall(W1, q)
    \/ SearchSetup(W1)
    \/ SearchSelect(W1)

SpecSingle == InitSingle /\ [][NextSingle]_vars

\* One caller, and an engine that may raise in the insertion phase.
NextFault ==
    \/ \E ks \in Inputs : SaveCall(W1, ks)
    \/ SaveAgain(W1)
    \/ Return(W1)
    \/ SaveSetup(W1)
    \/ SaveCheck(W1)
    \/ BatchInsertRow(W1)
    \/ BatchInsertFault(W1)
    \/ BatchCommit(W1)
    \/ BatchCommitFault(W1)
    \/ Rollback(W1)
    \/ FallbackRow(W1)
    \/ FallbackRowFault(W1)
    \/ FallbackCommit(W1)
    \/ FallbackCommitFault(W1)

SpecFault == InitSingle /\ [][NextFault]_vars

\* One caller handing over lists up to one descriptor past the engine's ceiling.
NextLimit ==
    \/ SetupDatabase(W1)
    \/ \E ks \in InputsLimit : ExistingCall(W1, ks)
    \/ \E ks \in InputsLimit : SaveCall(W1, ks)
    \/ SaveAgain(W1)
    \/ Return(W1)
    \/ SaveSetup(W1)
    \/ SaveCheck(W1)
    \/ BatchInsertRow(W1)
    \/ BatchCommit(W1)
    \/ Rollback(W1)
    \/ FallbackRow(W1)
    \/ FallbackCommit(W1)

SpecLimit == InitSingle /\ [][NextLimit]_vars

\* One caller storing keys of several characters and searching them with
\* queries that may hold '%' and '_'.
NextSearch ==
    \/ \E ks \in InputsSearch : SaveCall(W1, ks)
    \/ Return(W1)
    \/ SaveSetup(W1)
    \/ SaveCheck(W1)
    \/ BatchInsertRow(W1)
    \/ BatchCommit(W1)
    \/ Rollback(W1)
    \/ FallbackRow(W1)
    \/ FallbackCommit(W1)
    \/ \E q \in QueriesSearch : SearchCall(W1, q)
    \/ SearchSetup(W1)
    \/ SearchSelect(W1)

SpecSearch == InitSingle /\ [][NextSearch]_vars

\* The listing generator alone, drained by list(), over every remote store
\* of the bounds.
InitList ==
    /\ InitDb
    /\ calls = 0
    /\ s3 \in RemoteStores
    /\ gen = GenOff
    /\ drv = DrvOff

NextList ==
    \/ \E flt \in Filters, B \in BatchSizes : ListCall(flt, B)
    \/ GenStart
    \/ GenNextBucket
    \/ GenPage
    \/ GenObj
    \/ ListTake

SpecList == InitList /\ [][NextList]_vars

\* The save command run again and again by one user against a remote store
\* whose buckets can all be listed and gain objects between the runs.  The
\* batches of one listing hold each identity once and nobody else writes,
\* so the batch insert of a run never fails.
RemoteRun ==
    { <<Bucket("b1", Objects(n), NoFail), Bucket("b2", Objects(m), NoFail)>> :
        n \in 0..MaxObjects, m \in 0..MaxObjects }

InitRun ==
    /\ InitDb
    /\ calls = MaxCalls
    /\ s3 \in RemoteRun
    /\ gen = GenOff
    /\ drv = DrvOff

NextRun ==
    \/ \E flt \in Filters, B \in BatchSizes : DriverCall(flt, B)
    \/ GenStart
    \/ GenNextBucket
    \/ GenPage
    \/ GenObj
    \/ DriverTake
    \/ SaveSetup(W1)
    \/ SaveCheck(W1)
    \/ BatchInsertRow(W1)
    \/ BatchCommit(W1)
    \/ DriverAccumulate
    \/ DriverFinish
    \/ \E nm \in {"b1", "b2"} : PutObject(nm)

SpecRun == InitRun /\ [][NextRun]_vars

\* The two commands of the CLI run by one user, with everything that can
\* raise: the source before its first bucket, a bucket that cannot be
\* listed, setup_database, and the engine during the insertion phase.
RemoteCli ==
    { <<Bucket("b1", Objects(n), NoFail), Bucket("b2", Objects(1), 0)>> :
        n \in 0..MaxObjects }

InitCli ==
    /\ InitDb
    /\ calls = MaxCallsConc
    /\ s3 \in RemoteCli
    /\ gen = GenOff
    /\ drv = DrvOff

NextCli ==
    \/ \E flt \in Filters, B \in BatchSizes : DriverCall(flt, B)
    \/ DriverSetupFault
    \/ GenStart
    \/ GenStartFault
    \/ GenNextBucket
    \/ GenPage
    \/ GenObj
    \/ DriverTake
    \/ SaveSetup(W1)
    \/ SaveSetupFault(W1)
    \/ SaveCheck(W1)
    \/ BatchInsertRow(W1)
    \/ BatchInsertFault(W1)
    \/ BatchCommit(W1)
    \/ BatchCommitFault(W1)
    \/ Rollback(W1)
    \/ FallbackRow(W1)
    \/ FallbackRowFault(W1)
    \/ FallbackCommit(W1)
    \/ FallbackCommitFault(W1)
    \/ DriverAccumulate
    \/ DriverSaveRaised
    \/ DriverSourceRaised
    \/ DriverFinish
    \/ \E q \in Queries : CliSearch(q)
    \/ SearchSetup(W1)
    \/ SearchSetupFault(W1)
    \/ SearchSelect(W1)
    \/ CliSearchFinish
    \/ CliSearchRaised

SpecCli == InitCli /\ [][NextCli]_vars

\* The save command run by one user over buckets that can all be listed,
\* where a run can be stopped at any step: by what the source raises before
\* its first bucket, or by the user.
InitStop ==
    /\ InitDb
    /\ calls = MaxCallsConc
    /\ s3 \in RemoteRun
    /\ gen = GenOff
    /\ drv = DrvOff

NextStop ==
    \/ \E flt \in Filters, B \in BatchSizes : DriverCall(flt, B)
    \/ GenStart
    \/ GenStartFault
    \/ GenNextBucket
    \/ GenPage
    \/ GenObj
    \/ DriverTake
    \/ SaveSetup(W1)
    \/ SaveCheck(W1)
    \/ BatchInsertRow(W1)
    \/ BatchCommit(W1)
    \/ DriverAccumulate
    \/ DriverSourceRaised
    \/ DriverFinish
    \/ Interrupt

SpecStop == InitStop /\ [][NextStop]_vars

(* ------------------------------ properties ---------------------------- *)

SaveDone(p) == st[p].op = "save" /\ st[p].pc = "done"

ViaFallback(p) == SaveDone(p) /\ st[p].path = "fallback"

RowsOf(tbl, x) == { i \in 1..Len(tbl) : Id(tbl[i]) = x }

StampsOf(tbl, x) == { tbl[i].last_modified : i \in RowsOf(tbl, x) }

DistinctIds(ks) == Cardinality(Ids(ks)) = Len(ks)

\* C1: in every reachable state, under any interleaving of setup_database,
\* save_keys_to_db and search_keys of two callers, batch path or fallback
\* path, no two rows of s3_keys have the same (bucket, key).
C1_Uniqueness ==
    \A i, j \in 1..Len(table) : i # j => Id(table[i]) # Id(table[j])

\* C1 witness: two saves raced for one identity, one committed it on the
\* batch path, the other went through the fallback, and the row is stored.
C1_Witness ==
    /\ SaveDone(W1) /\ st[W1].path = "batch"
    /\ ViaFallback(W2)
    /\ \E x \in Ids(st[W1].newKeys) \cap Ids(st[W2].newKeys) : RowsOf(table, x) # {}

\* C2: with one writer, a save that repeats the descriptor list of the save
\* that returned just before it returns (0, len(list)) and leaves the stored
\* rows as they were.
C2_Idempotent ==
    \A p \in Procs :
        (SaveDone(p) /\ st[p].repeat) =>
            /\ st[p].ret = <<0, Len(st[p].keys)>>
            /\ table = st[p].pre

\* C2 witness: a repeated save of a list of two or more descriptors, of which
\* the first call had stored rows, has returned.
C2_Witness ==
    /\ SaveDone(W1) /\ st[W1].repeat
    /\ Len(st[W1].keys) >= 2
    /\ Ids(st[W1].keys) \subseteq Ids(table)

\* C3: with one writer, a save whose descriptors have pairwise distinct
\* identities returns inserted = number of input identities absent before the
\* call, skipped = number present before the call, and afterwards the stored
\* identities are exactly (identities before) union (input identities).
C3_PartialOverlap ==
    \A p \in Procs :
        (SaveDone(p) /\ DistinctIds(st[p].keys)) =>
            /\ st[p].ret[1] = Cardinality(Ids(st[p].keys) \ Ids(st[p].pre))
            /\ st[p].ret[2] = Cardinality(Ids(st[p].keys) \cap Ids(st[p].pre))
            /\ Ids(table) = Ids(st[p].pre) \cup Ids(st[p].keys)

\* C3 witness: one identity stored before, a save of three distinct
\* identities of which one is the stored one, result (2, 1).
C3_Witness ==
    /\ SaveDone(W1) /\ DistinctIds(st[W1].keys)
    /\ Len(st[W1].keys) = 3
    /\ Cardinality(Ids(st[W1].pre)) = 1
    /\ st[W1].ret = <<2, 1>>

\* C4: once a row for an identity is stored, no step changes the
\* last_modified stored for that identity (insert-if-absent, never upsert).
C4_NeverUpsert ==
    [][ \A i \in 1..Len(table) :
            StampsOf(table', Id(table[i])) = {table[i].last_modified} ]_vars

\* C4 witness: a save that carried a stored identity with another timestamp
\* has returned through the fallback path, the first-seen timestamp stored.
C4_Witness ==
    \E p \in Procs :
        /\ ViaFallback(p)
        /\ \E i \in 1..Len(st[p].newKeys) :
              /\ StampsOf(table, Id(st[p].newKeys[i])) # {}
              /\ st[p].newKeys[i].last_modified
                     \notin StampsOf(table, Id(st[p].newKeys[i]))

\* Both saves found x absent in their existence check and have returned.
Raced(p, q, x) ==
    /\ p # q
    /\ SaveDone(p) /\ SaveDone(q)
    /\ x \in Ids(st[p].newKeys) \cap Ids(st[q].newKeys)

\* C5: when two saves both find identity x absent, neither raises, x is
\* stored exactly once, exactly one of them counts x as inserted, each
\* returns the number of rows it stored, and every other new row of either
\* call is stored.
C5_RacePolicy ==
    /\ \A p \in Procs : st[p].op = "save" /\ st[p].newKeys # <<>> => st[p].pc # "raised"
    /\ \A p, q \in Procs : \A x \in Ids(st[p].newKeys) :
         Raced(p, q, x) =>
            /\ Cardinality(RowsOf(table, x)) = 1
            /\ (x \in Ids(st[p].inserted)) # (x \in Ids(st[q].inserted))
            /\ st[p].ret = <<Len(st[p].inserted), st[p].skipped>>
            /\ st[q].ret = <<Len(st[q].inserted), st[q].skipped>>
            /\ Ids(st[p].newKeys) \cup Ids(st[q].newKeys) \subseteq Ids(table)

\* C5 witness: the losing call went through the fallback and still stored
\* another new row of its own.
C5_Witness ==
    \E x \in Ids(st[W1].newKeys) :
        /\ Raced(W1, W2, x)
        /\ ViaFallback(W2)
        /\ x \in Ids(st[W1].inserted)
        /\ st[W2].inserted # <<>>

\* C6: starting from an empty store, the sum of the inserted counts returned
\* so far equals the number of stored rows, and each returned inserted count
\* is the number of rows that call committed.
C6_CountsArePersisted ==
    /\ totalReported = Len(table)
    /\ \A p \in Procs :
         SaveDone(p) =>
            /\ st[p].ret[1] = Len(st[p].inserted)
            /\ Range(st[p].inserted) \subseteq Range(table)

\* C6 witness: a save that lost one row in the fallback returned, and rows of
\* both callers are stored.
C6_Witness ==
    /\ ViaFallback(W2)
    /\ Len(st[W2].inserted) < Len(st[W2].newKeys)
    /\ st[W2].inserted # <<>>
    /\ SaveDone(W1) /\ st[W1].inserted # <<>>
    /\ totalReported >= 2

\* C7: when a save returns through the fallback, every pending new row whose
\* own INSERT the engine did not refuse is stored (a failing row does not stop
\* the rows after it), the rows the call inserted are stored, and the returned
\* inserted count is the number of those rows found in the table.
C7_FallbackCorrect ==
    \A p \in Procs :
        ViaFallback(p) =>
            /\ \A i \in 1..Len(st[p].newKeys) :
                  \/ i \in st[p].faulted
                  \/ Id(st[p].newKeys[i]) \in Ids(table)
            /\ Range(st[p].inserted) \subseteq Range(table)
            /\ st[p].ret[1] =
                  Cardinality({ i \in 1..Len(table) : table[i] \in Range(st[p].inserted) })

\* C7 witness: in the fallback a row failed and a later row of the same call
\* was stored.
C7_Witness ==
    \E p \in Procs :
        /\ ViaFallback(p)
        /\ \E i, j \in 1..Len(st[p].newKeys) :
              /\ i < j
              /\ i \in st[p].faulted
              /\ st[p].newKeys[j] \in Range(st[p].inserted)

\* C8: no exception escapes save_keys_to_db from the insertion phase (batch
\* attempt, rollback, per-row inserts, final commit).
C8_NoEscape ==
    \A p \in Procs : ~(st[p].op = "save" /\ st[p].pc = "raised" /\ st[p].err = "commit failed")

\* C9: with one caller, get_existing_keys on a created table returns exactly
\* the candidate identities that are stored, nothing outside the candidates,
\* it raises only without a table or past the engine's ceiling, and the
\* stored rows are as before the call.
C9_ExistingExact ==
    \A p \in Procs :
        st[p].op = "existing" =>
            /\ st[p].pc = "done" =>
                  /\ st[p].ret = { x \in Ids(st[p].keys) : x \in Ids(table) }
                  /\ st[p].ret \subseteq Ids(st[p].keys)
            /\ st[p].pc = "raised" =>
                  \/ st[p].err = "no such table" /\ ~schema
                  \/ st[p].err = "too many SQL variables" /\ TooManyVariables(st[p].keys)
            /\ table = st[p].pre

\* C9 witness: a candidate list with a repeated candidate, a stored one and
\* one that shares only the bucket with a stored row.
C9_Witness ==
    /\ st[W1].op = "existing" /\ st[W1].pc = "done"
    /\ ~DistinctIds(st[W1].keys)
    /\ st[W1].ret # {}
    /\ \E i \in 1..Len(st[W1].keys) :
          /\ Id(st[W1].keys[i]) \notin st[W1].ret
          /\ \E r \in 1..Len(table) : table[r].bucket = st[W1].keys[i].bucket

\* C10: get_existing_keys, and save_keys_to_db through it, never fail on the
\* engine's per-statement parameter ceiling, whatever the length of the list.
C10_AnyLength ==
    \A p \in Procs : st[p].err # "too many SQL variables"

\* q occurs in s as a contiguous run of characters, at any position.
Contains(s, q) ==
    \E i \in 0..(Len(s) - Len(q)) : SubSeq(s, i + 1, i + Len(q)) = q

\* C11: for every store state and every query q over ordinary characters,
\* '%' and '_', search_keys(q) returns exactly the stored rows whose key
\* contains q as a contiguous substring; no match gives the empty sequence.
C11_SubstringSearch ==
    \A p \in Procs :
        (st[p].op = "search" /\ st[p].pc = "done") =>
            st[p].ret = SelectSeq(table, LAMBDA r : Contains(r.key, st[p].query))

RECURSIVE Flatten(_)
Flatten(bs) == IF bs = <<>> THEN <<>> ELSE Head(bs) \o Flatten(Tail(bs))

\* The generator is exhausted and list() holds every batch it yielded.
ListDone == gen.pc = "end" /\ drv.pc = "off"

\* C12: an enumeration without failure that produces N descriptors in
\* total, from one bucket or from all of them, with batch size B >= 1 emits
\* exactly ceil(N/B) batches, all of size B except possibly the last one
\* emitted, which has N mod B descriptors (B when B divides N), in listing
\* order.
C12_BatchSizeContract ==
    (ListDone /\ gen.failed = {}) =>
        LET N == Len(gen.read)
            B == gen.batchSize
            n == Len(gen.emitted)
        IN /\ n = CeilDiv(N, B)
           /\ \A i \in 1..(n - 1) : Len(gen.emitted[i]) = B
           /\ n > 0 => Len(gen.emitted[n]) = (IF N % B = 0 THEN B ELSE N % B)
           /\ Flatten(gen.emitted) = gen.read

\* The buckets an enumeration with filter flt is about: the named one, or
\* every bucket of the remote store.
Enumerated(flt) ==
    IF flt # NoFilter THEN SelectSeq(s3, LAMBDA b : b.Name = flt) ELSE s3

DescriptorsOf(b) == [i \in 1..Len(b.objs) |-> Descriptor(b.Name, b.objs[i])]

RECURSIVE AllDescriptors(_)
AllDescriptors(bs) ==
    IF bs = <<>> THEN <<>> ELSE DescriptorsOf(Head(bs)) \o AllDescriptors(Tail(bs))

\* C13: for batch_size >= 1, no emitted batch is empty, no emitted batch
\* and at no time the buffer holds more than batch_size descriptors, and
\* when no bucket fails the concatenation of the emitted batches is the
\* sequence of all objects of the enumerated buckets (the named one under a
\* filter, all otherwise), each once and in listing order; a bucket without
\* objects gives no batch.
C13_ListingComplete ==
    /\ Len(gen.batch) <= gen.batchSize
    /\ gen.pc = "yielded" => gen.out # <<>> /\ Len(gen.out) <= gen.batchSize
    /\ \A i \in 1..Len(gen.emitted) :
          gen.emitted[i] # <<>> /\ Len(gen.emitted[i]) <= gen.batchSize
    /\ (ListDone /\ gen.failed = {}) =>
          /\ Flatten(gen.emitted) = AllDescriptors(Enumerated(gen.filter))
          /\ AllDescriptors(Enumerated(gen.filter)) = <<>> => gen.emitted = <<>>

\* C13 witness: all buckets enumerated, the first one over two pages, an
\* empty bucket passed over or a short batch emitted before a later batch.
C13_Witness ==
    /\ ListDone /\ gen.failed = {}
    /\ gen.filter = NoFilter /\ Len(s3) = 2
    /\ Len(s3[1].objs) > PageSize
    /\ Len(gen.emitted) >= 3
    /\ Len(gen.emitted[2]) < gen.batchSize
    /\ Len(gen.read) = Len(s3[1].objs) + Len(s3[2].objs)

\* The descriptors the paginator hands over for the bucket named nm before
\* it raises: none for an unknown bucket, the objects of the pages delivered
\* for a failing one, all objects otherwise.
Delivered(nm) ==
    IF ~Known(nm) THEN <<>>
    ELSE LET b == BucketOf(nm)
             all == DescriptorsOf(b)
         IN IF b.failAt = NoFail THEN all
            ELSE SubSeq(all, 1, Min(b.failAt * PageSize, Len(all)))

RECURSIVE AllDelivered(_)
AllDelivered(names) ==
    IF names = <<>> THEN <<>>
    ELSE Delivered(Head(names)) \o AllDelivered(Tail(names))

\* C14: the generator never raises because a bucket fails; when it is
\* exhausted, the emitted batches hold, once each and in order, every
\* descriptor read before a failure and every object of the buckets after
\* a failing one, without an empty batch; a bucket that fails before its
\* first page gives no batch.
C14_FailurePolicy ==
    /\ gen.pc # "raised"
    /\ ListDone =>
          /\ Flatten(gen.emitted) = gen.read
          /\ gen.read = AllDelivered(gen.buckets)
          /\ \A i \in 1..Len(gen.emitted) : gen.emitted[i] # <<>>
          /\ \A k \in gen.failed :
                Delivered(gen.buckets[k]) = <<>> =>
                    \A i \in 1..Len(gen.emitted) : \A j \in 1..Len(gen.emitted[i]) :
                        gen.emitted[i][j].bucket # gen.buckets[k]

\* C14 witness: the first bucket failed after its first page with the
\* buffer not yet full, the buffered descriptors came out as a short batch
\* and the second bucket was enumerated after it.
C14_Witness ==
    /\ ListDone
    /\ gen.failed = {1} /\ Len(gen.buckets) = 2
    /\ Delivered(gen.buckets[1]) # <<>>
    /\ Len(gen.emitted) >= 2
    /\ gen.emitted[1] = Delivered(gen.buckets[1])
    /\ Len(gen.emitted[1]) < gen.batchSize
    /\ gen.emitted[Len(gen.emitted)][1].bucket = gen.buckets[2]

RECURSIVE SumOf(_, _)
SumOf(rs, k) == IF rs = <<>> THEN 0 ELSE Head(rs)[k] + SumOf(Tail(rs), k)

\* The save command has ended with its success line and the remote store
\* is as the command found it.
RunDone == drv.cmd = "save" /\ drv.pc = "done" /\ drv.since = <<>>

\* The objects the run was to enumerate.
RunObjects == AllDescriptors(Enumerated(gen.filter))

\* C15: a save command that ends has called save_keys_to_db once per
\* emitted batch, its total is the sum of the inserted counts of the
\* batches and the number of rows the run added; a run on an empty store
\* totals the number of objects, a run right after a run over the same
\* unchanged buckets totals 0 with every descriptor skipped, and a run after
\* one object was added to them totals 1.
C15_DriverTotals ==
    RunDone =>
        /\ drv.batchCount = Len(gen.emitted)
        /\ Len(drv.results) = Len(gen.emitted)
        /\ drv.total = SumOf(drv.results, 1)
        /\ drv.total = Len(table) - Len(drv.before)
        /\ drv.before = <<>> => drv.total = Len(RunObjects)
        /\ (drv.prev = gen.filter /\ drv.puts = <<>>) =>
              /\ drv.total = 0
              /\ SumOf(drv.results, 2) = Len(RunObjects)
        /\ (drv.prev = gen.filter /\ Len(drv.puts) = 1
               /\ gen.filter \in {NoFilter, drv.puts[1]}) =>
              drv.total = 1

\* C15 witness: the third run of the command over the same filter, after
\* a run that added nothing and one object put into the second bucket; it
\* saved more than one batch and added one row.
C15_Witness ==
    /\ RunDone
    /\ calls = MaxCalls - 3
    /\ drv.prev = gen.filter /\ drv.puts = <<"b2">>
    /\ gen.filter = NoFilter
    /\ Len(gen.emitted) >= 3
    /\ drv.total = 1
    /\ Len(table) = Len(RunObjects)

\* C16: the save command ends with its success line only when the
\* generator was exhausted without raising; when the generator raises, the
\* command ends with a nonzero exit code; a save command ends abnormally only
\* for an exception of the source, of setup_database or one that left
\* save_keys_to_db, never for an error handled inside save_keys_to_db; a
\* search command that returns, with or without rows, ends with exit code 0.
C16_SourceFailurePropagates ==
    /\ (drv.cmd = "save" /\ drv.pc = "done") =>
          gen.pc = "end" /\ drv.exit = 0 /\ drv.errs = {}
    /\ (drv.cmd = "save" /\ gen.pc = "raised") => drv.pc \in {"pull", "raised"}
    /\ (drv.cmd = "save" /\ drv.pc = "raised") =>
          /\ drv.exit # 0
          /\ drv.errs # {}
          /\ drv.errs \subseteq {"source", BadFile, "commit failed"}
    /\ (drv.cmd = "search" /\ drv.pc = "done") => drv.exit = 0

\* C16 witness: the second save command was ended by the source raising,
\* exit code 1, the rows of the first command still stored.
C16_Witness ==
    /\ drv.cmd = "save" /\ drv.pc = "raised"
    /\ drv.errs = {"source"} /\ drv.exit = 1
    /\ drv.batchCount = 0
    /\ table # <<>> /\ table = drv.before

\* A save command went on after a batch whose rows the engine refused.
C16_IsolatedErrorSeen ==
    /\ drv.cmd = "save" /\ drv.pc = "done"
    /\ drv.fallbacks > 0
    /\ Len(drv.results) >= 2

C19_SearchSurvivesBadFile ==
    (drv.cmd = "search" /\ (st[W1].err = BadFile \/ BadFile \in drv.errs)) =>
        /\ drv.pc \in {"searching", "done"}
        /\ drv.exit = 0

\* The running call is the first call ever made on the store.
FirstCall == calls = MaxCalls - 1

\* C17: a search that is the first call ever made on the store does not
\* raise; it returns the empty sequence, and afterwards the table s3_keys
\* exists and holds no rows.
C17_SearchCreatesStore ==
    (st[W1].op = "search" /\ FirstCall) =>
        /\ st[W1].pc # "raised"
        /\ st[W1].pc = "done" =>
              st[W1].ret = <<>> /\ schema /\ table = <<>>

\* C17 witness: the first call was a search for a non-empty string and
\* has returned.
C17_Witness ==
    /\ st[W1].op = "search" /\ st[W1].pc = "done" /\ FirstCall
    /\ st[W1].query # <<>>
    /\ st[W1].pre = <<>>
    /\ schema

\* C20: save_keys_to_db([]) returns (0, 0) and get_existing_keys([])
\* returns the empty set at once: no schema check, no transaction, no lock,
\* no query, the rows as they were; as the first call on a store that was
\* never created, either leaves it without a table.
C20_EmptyInputNoEffect ==
    \A p \in Procs :
        /\ (st[p].op = "save" /\ st[p].keys = <<>>) =>
              /\ st[p].pc = "done" /\ st[p].ret = <<0, 0>>
              /\ st[p].path = "none" /\ st[p].pending = <<>>
              /\ lock # p
              /\ table = st[p].pre
        /\ (st[p].op = "existing" /\ st[p].keys = <<>>) =>
              /\ st[p].pc = "done" /\ st[p].ret = {}
              /\ table = st[p].pre
        /\ (st[p].op \in {"save", "existing"} /\ st[p].keys = <<>> /\ FirstCall) =>
              ~schema /\ table = <<>>

\* C20 witness: the first call on a store never created was a save of the
\* empty list; it has returned and there is no table.
C20_Witness ==
    /\ st[W1].op = "save" /\ st[W1].keys = <<>> /\ st[W1].pc = "done"
    /\ FirstCall
    /\ ~schema

\* A step in which caller p makes a call of setup_database on its own.
SetupStep(p) == st'[p].op = "setup" /\ st[p].op # "setup"

\* C21: every call of setup_database, made at any point between the
\* statements of the other caller's save or search, returns the path of the
\* database, leaves every stored row and the write lock as they were and
\* the table in place with no identity stored twice; on an existing table
\* it changes nothing.
C21_SetupIdempotent ==
    [][ \A p \in Procs :
          SetupStep(p) =>
             /\ st'[p].pc = "done" /\ st'[p].ret = DbPath
             /\ table' = table /\ lock' = lock
             /\ schema'
             /\ \A i, j \in 1..Len(table') :
                   i # j => Id(table'[i]) # Id(table'[j])
             /\ schema => UNCHANGED <<schema, table, lock, totalReported>> ]_vars

\* C21 witness: setup_database has returned on an existing table while the
\* other caller is inside a save, holding the write lock with rows not yet
\* committed.
C21_Witness ==
    /\ st[W1].op = "setup" /\ st[W1].pc = "done" /\ st[W1].ret = DbPath
    /\ table = st[W1].pre /\ schema
    /\ st[W2].op = "save" /\ st[W2].pc = "batch"
    /\ Len(st[W2].pending) = Len(st[W2].newKeys) /\ st[W2].pending # <<>>
    /\ lock = W2

\* Caller p is in, or has just entered, a call that only reads.
ReadStep(p) ==
    /\ st'[p] # st[p]
    /\ st'[p].op \in {"search", "existing", "setup"}

\* C22: in every step the stored rows stay where they are, bucket, key and
\* last_modified unchanged, and new rows come only at the end; rows are
\* added only by the commit of a save; a step of search_keys,
\* get_existing_keys or setup_database leaves the rows as they were.
C22_AppendOnly ==
    [][ /\ Len(table') >= Len(table)
        /\ SubSeq(table', 1, Len(table)) = table
        /\ table' # table =>
              \E p \in Procs :
                  /\ st[p].op = "save" /\ st[p].pc \in {"batch", "fallback"}
                  /\ st'[p].pc = "done"
                  /\ table' = table \o st'[p].inserted
        /\ \A p \in Procs : ReadStep(p) => table' = table ]_vars

\* C22 witness: a save that went through rollback and fallback has added a
\* row behind the rows the other caller had stored.
C22_Witness ==
    /\ ViaFallback(W2) /\ st[W2].inserted # <<>>
    /\ st[W2].pre # <<>>
    /\ table = st[W2].pre \o st[W2].inserted

\* Caller p is inside its batch attempt or about to roll it back.
InBatchAttempt(p) == st[p].op = "save" /\ st[p].pc \in {"batch", "rollback"}

\* The rows caller q can read hold none of the rows of the batch attempt
\* that p has not committed.
BatchInvisible(p) ==
    InBatchAttempt(p) => Range(st[p].pending) \cap Range(table) = {}

\* C23: the rows of a batch attempt reach the table in one step, all of
\* them, at its commit, and until then no reader finds any of them; a batch
\* attempt that fails leaves the table as it was, and the fallback starts
\* after the rollback with none of its rows written and the lock released.
C23_AtomicBatch ==
    [][ \A p \in Procs :
          /\ BatchInvisible(p)'
          /\ (InBatchAttempt(p) /\ st'[p] # st[p]) =>
                IF st'[p].pc = "done"
                THEN /\ table' = table \o st[p].newKeys
                     /\ st'[p].inserted = st[p].newKeys
                ELSE table' = table
          /\ (st[p].pc = "rollback" /\ st'[p].pc = "fallback") =>
                /\ st'[p].pending = <<>> /\ st'[p].idx = 1
                /\ lock' # p
          /\ (\E q \in Procs \ {p} :
                  st[q].op = "search" /\ st'[q].pc = "done" /\ st[q].pc = "select") =>
                \A q \in Procs \ {p} :
                    (st[q].op = "search" /\ st[q].pc = "select") =>
                        Range(st'[q].ret) \cap Range(st[p].pending) = {} ]_vars

\* C23 witness: a batch attempt that had written its first row failed on
\* its second, was rolled back, and the fallback is about to start on a
\* table without that first row.
C23_Witness ==
    \E p \in Procs :
        /\ st[p].op = "save" /\ st[p].pc = "fallback" /\ st[p].idx = 1
        /\ st[p].pending = <<>>
        /\ Len(st[p].newKeys) = 2
        /\ Id(st[p].newKeys[1]) \notin Ids(table)
        /\ Id(st[p].newKeys[2]) \in Ids(table)

\* The body of the generator is running (between a next() and the yield,
\* the end or the exception that answers it).
GenRunning == gen.pc \in {"start", "bucket", "page", "obj"}

IsPrefix(a, b) == Len(a) <= Len(b) /\ SubSeq(b, 1, Len(a)) = a

\* C24: during a save command the lists whose save has returned are, in
\* order, the batches the generator has emitted, all of them but the one
\* being saved; while save_keys_to_db runs the generator stays suspended at
\* its yield, and while the generator runs no save is in progress.
C24_DriverOrdering ==
    drv.cmd = "save" =>
        /\ IsPrefix(drv.saved, gen.emitted)
        /\ Len(gen.emitted) - Len(drv.saved) = (IF drv.pc = "saving" THEN 1 ELSE 0)
        /\ drv.pc = "saving" =>
              /\ gen.pc = "suspended"
              /\ st[W1].op = "save"
              /\ st[W1].keys = gen.emitted[Len(gen.emitted)]
        /\ GenRunning => drv.pc = "pull" /\ st[W1].pc = "idle"
        /\ drv.pc = "done" => drv.saved = gen.emitted

\* C24 witness: the third batch of a run is being saved, the first two
\* saved in the order of their emission and the generator suspended.
C24_Witness ==
    /\ drv.cmd = "save" /\ drv.pc = "saving"
    /\ Len(gen.emitted) = 3 /\ Len(drv.saved) = 2
    /\ gen.emitted[1] # gen.emitted[2]
    /\ st[W1].pc = "batch" /\ st[W1].pending # <<>>
    /\ gen.pc = "suspended"

\* Positions of the descriptors of identity x in the list ks.
Occurrences(ks, x) == { i \in 1..Len(ks) : Id(ks[i]) = x }

\* Identity x was not stored before the call of p and its input list holds
\* it more than once.
RepeatedNew(p, x) ==
    /\ x \in Ids(st[p].keys) \ Ids(st[p].pre)
    /\ Cardinality(Occurrences(st[p].keys, x)) > 1

FirstOf(ks, x) == ks[CHOOSE i \in Occurrences(ks, x) : \A j \in Occurrences(ks, x) : i <= j]

\* C25: with one writer, a save whose list repeats an identity not stored
\* before does not raise; it returns through rollback and fallback, that
\* identity is stored once with the last_modified of its first descriptor,
\* inserted_count is the number of distinct new identities and
\* skipped_count the number of descriptors whose identity was stored before.
C25_DuplicateInBatch ==
    \A p \in Procs :
        (st[p].op = "save" /\ \E x \in Ids(st[p].keys) : RepeatedNew(p, x)) =>
            /\ st[p].pc # "raised"
            /\ st[p].pc = "done" =>
                  /\ st[p].path = "fallback"
                  /\ \A x \in Ids(st[p].keys) :
                        RepeatedNew(p, x) =>
                           /\ Cardinality(RowsOf(table, x)) = 1
                           /\ StampsOf(table, x) = {FirstOf(st[p].keys, x).last_modified}
                  /\ st[p].ret[1] = Cardinality(Ids(st[p].keys) \ Ids(st[p].pre))
                  /\ st[p].ret[2] =
                        Cardinality({ i \in 1..Len(st[p].keys) :
                                        Id(st[p].keys[i]) \in Ids(st[p].pre) })

\* C25 witness: a list of three descriptors, one of a stored identity and
\* two of a new one with different timestamps, has returned (1, 1).
C25_Witness ==
    /\ SaveDone(W1) /\ Len(st[W1].keys) = 3
    /\ st[W1].ret = <<1, 1>>
    /\ \E x \in Ids(st[W1].keys) :
          /\ RepeatedNew(W1, x)
          /\ Cardinality({ st[W1].keys[i].last_modified :
                              i \in Occurrences(st[W1].keys, x) }) = 2

\* The step in which caller p runs its existence check.
CheckStep(p) == st[p].op = "save" /\ st[p].pc = "check" /\ st'[p].pc = "batch"

\* The step in which the save of caller p returns.
ReturnStep(p) ==
    st[p].op = "save" /\ st[p].pc \in {"batch", "fallback"} /\ st'[p].pc = "done"

\* C26: the skipped count is fixed by the existence check as the number of
\* input descriptors whose identity is stored at that moment; a save that
\* returns reports that number, and inserted + skipped is at most the
\* length of the input, equal to it when the identities of the input are
\* pairwise distinct and every new row was inserted.
C26_CountAccounting ==
    [][ \A p \in Procs :
          /\ CheckStep(p) =>
                st'[p].skipped =
                    Cardinality({ i \in 1..Len(st[p].keys) :
                                    Id(st[p].keys[i]) \in Ids(table) })
          /\ ReturnStep(p) =>
                /\ st'[p].ret[2] = st[p].skipped
                /\ st'[p].ret[1] + st'[p].ret[2] <= Len(st[p].keys)
                /\ (DistinctIds(st[p].keys)
                      /\ Len(st'[p].inserted) = Len(st[p].newKeys)) =>
                      st'[p].ret[1] + st'[p].ret[2] = Len(st[p].keys) ]_vars

\* C26 witness: a save of two descriptors that lost a row to the other
\* caller after its existence check returned through the fallback with
\* counts that sum to less than the length of its input.
C26_Witness ==
    /\ SaveDone(W2) /\ Len(st[W2].keys) = 2
    /\ st[W2].ret[1] + st[W2].ret[2] < Len(st[W2].keys)
    /\ ViaFallback(W2)
    /\ SaveDone(W1) /\ st[W1].inserted # <<>>

\* The descriptors of ks whose identity has no row in tbl.
NewOf(ks, tbl) == SelectSeq(ks, LAMBDA d : Id(d) \notin Ids(tbl))

\* The running or last command is a save that ended abnormally.
Stopped == drv.cmd = "save" /\ drv.pc = "raised"

\* The save command before the running or last one ended abnormally.
AfterStop == calls <= MaxCallsConc - 2 /\ drv.prev = "-"

\* C27: at every step of a save command, also after it was stopped by the
\* source or by the user, the store holds the rows it held when the command
\* began followed by the new rows of the first k emitted batches, whole and
\* in order, where k counts every batch whose save returned and at most the
\* one being saved; a complete run after a stopped one adds exactly the
\* enumerated identities that had no row, and totals their number.
C27_DurableProgress ==
    /\ drv.cmd = "save" =>
          \E k \in Len(drv.saved)..Len(gen.emitted) :
              table = drv.before
                        \o NewOf(Flatten(SubSeq(gen.emitted, 1, k)), drv.before)
    /\ Stopped => Len(gen.emitted) <= Len(drv.saved) + 1
    /\ (RunDone /\ AfterStop) =>
          /\ table = drv.before \o NewOf(RunObjects, drv.before)
          /\ drv.total = Len(NewOf(RunObjects, drv.before))
          /\ Ids(RunObjects) \subseteq Ids(table)

\* C27 witness: a complete run over all buckets after a run that was
\* stopped inside the first bucket with some of its batches saved; the run
\* added the rest of the objects.
C27_Witness ==
    /\ RunDone /\ AfterStop
    /\ gen.filter = NoFilter
    /\ drv.before # <<>>
    /\ Len(drv.before) < Len(DescriptorsOf(s3[1]))
    /\ IsPrefix(drv.before, DescriptorsOf(s3[1]))
    /\ drv.total = Len(RunObjects) - Len(drv.before)
    /\ Len(table) = Len(RunObjects)

=============================================================================
